---- MODULE Spec2Model ----
(***************************************************************************)
(* Model of cli/helptext.go: the help-text renderer of the command tree.   *)
(*                                                                         *)
(* A Go string is a sequence of one-character strings, so that padding,    *)
(* joining, replacing and formatting are computed character by character.  *)
(* A format string holds the verb as the single element "%v".              *)
(***************************************************************************)
EXTENDS Integers, Sequences, FiniteSets, TLC

VARIABLES
    pc,         \* position of the operation under way
    colIn,      \* align: the column handed to align
    colOut,     \* align: the column align returned
    indLine,    \* indentString: its line argument
    indPrefix,  \* indentString: its prefix argument
    indOut,     \* indentString: its result
    uArgs,      \* usageText: cmd.Arguments of the command
    uIdx,       \* argUsageText: index of the argument last rendered (0: none)
    uArgOut,    \* argUsageText: its last result
    uOut,       \* usageText: its result
    cmd,        \* optionText: the variadic cmd parameter
    options,    \* optionText: the collected options
    lines,      \* optionText: the lines under construction
    j,          \* optionText: the alias index of the pass
    passes,     \* optionText: passes of the alias loop begun so far
    panicked,   \* optionText: an index went past the end of a slice
    root,       \* LongHelp: the command tree
    path,       \* LongHelp: the path of the last call
    err,        \* LongHelp: the error the last call returned
    out,        \* LongHelp: what the last call wrote to its io.Writer
    fields,     \* LongHelp: the helpFields of the last call
    invoked     \* LongHelp: the generators the last call invoked

alignVars  == <<colIn, colOut>>
indentVars == <<indLine, indPrefix, indOut>>
usageVars  == <<uArgs, uIdx, uArgOut, uOut>>
optionVars == <<cmd, options, lines, j, passes, panicked>>
helpVars   == <<root, path, err, out, fields, invoked>>
vars == <<pc, alignVars, indentVars, usageVars, optionVars, helpVars>>

----------------------------------------------------------------------------
(* Bounds of the model                                                     *)

MaxStr == 2       \* longest string of a column given to align
MaxCol == 3       \* longest column given to align
MaxText == 4      \* longest text given to indentString
MaxPrefix == 2    \* longest prefix given to indentString
MaxArgs == 2      \* most arguments of a command
MaxAliases == 2   \* most names of an option
MaxOpts == 2      \* most options over the commands given to optionText
MaxSubs == 2      \* most subcommands of a command

----------------------------------------------------------------------------
(* Constants of helptext.go                                                *)

requiredArg == <<"<", "%v", ">">>
optionalArg == <<"[", "<", "%v", ">", "]">>
variadicArg == <<"%v", ".", ".", ".">>
optionFlag  == <<"-", "%v">>
optionType  == <<"(", "%v", ")">>
indentStr   == <<" ", " ", " ", " ">>

NL == "\n"

----------------------------------------------------------------------------
(* The library functions helptext.go calls                                 *)

\* all strings over alphabet of length at most n
Strs(alphabet, n) == UNION {[1..k -> alphabet] : k \in 0..n}

\* fmt.Sprintf(format, args...): every verb replaced by the next argument
RECURSIVE Sprintf(_, _)
Sprintf(format, args) ==
    IF format = <<>> THEN <<>>
    ELSE IF Head(format) = "%v"
         THEN Head(args) \o Sprintf(Tail(format), Tail(args))
         ELSE <<Head(format)>> \o Sprintf(Tail(format), args)

\* strings.Join(a, sep)
RECURSIVE Join(_, _)
Join(a, sep) ==
    IF a = <<>> THEN <<>>
    ELSE IF Len(a) = 1 THEN a[1]
    ELSE a[1] \o sep \o Join(Tail(a), sep)

\* strings.Repeat(s, count)
RECURSIVE Repeat(_, _)
Repeat(s, count) == IF count <= 0 THEN <<>> ELSE s \o Repeat(s, count - 1)

\* strings.Replace(s, old, new, n) for a one-character old; n < 0: no limit
RECURSIVE Replace(_, _, _, _)
Replace(s, old, new, n) ==
    IF s = <<>> \/ n = 0 THEN s
    ELSE IF <<Head(s)>> = old
         THEN new \o Replace(Tail(s), old, new, n - 1)
         ELSE <<Head(s)>> \o Replace(Tail(s), old, new, n)

----------------------------------------------------------------------------
(* align and indentString                                                  *)

\* the first loop of align: the length of the longest line
RECURSIVE Longest(_)
Longest(ls) ==
    IF ls = <<>> THEN 0
    ELSE LET rest == Longest(Tail(ls))
         IN IF Len(Head(ls)) > rest THEN Len(Head(ls)) ELSE rest

align_PadsEmpty(ls) ==
    [i \in 1..Len(ls) |-> ls[i] \o Repeat(<<" ">>, Longest(ls) - Len(ls[i]))]

align(ls) ==
    [i \in 1..Len(ls) |->
        IF Len(ls[i]) > 0
        THEN ls[i] \o Repeat(<<" ">>, Longest(ls) - Len(ls[i]))
        ELSE ls[i]]

indentString_FirstOnly(line, prefix) == Replace(line, <<NL>>, <<NL>> \o prefix, 1)

indentString(line, prefix) == Replace(line, <<NL>>, <<NL>> \o prefix, -1)

----------------------------------------------------------------------------
(* usageText and argUsageText                                              *)

argUsageText_VariadicInside(arg) ==
    LET s0 == IF arg.Variadic THEN Sprintf(variadicArg, <<arg.Name>>) ELSE arg.Name
    IN  IF arg.Required THEN Sprintf(requiredArg, <<s0>>)
        ELSE Sprintf(optionalArg, <<s0>>)

argUsageText(arg) ==
    LET s0 == arg.Name
        s1 == IF arg.Required THEN Sprintf(requiredArg, <<s0>>)
              ELSE Sprintf(optionalArg, <<s0>>)
    IN  IF arg.Variadic THEN Sprintf(variadicArg, <<s1>>) ELSE s1

\* the loop of usageText over the arguments from index i on, s the text so far
RECURSIVE usageLoop(_, _, _)
usageLoop(args, i, s) ==
    IF i > Len(args) THEN s
    ELSE usageLoop(args, i + 1,
                   (IF i # 1 THEN s \o <<" ">> ELSE s) \o argUsageText(args[i]))

usageText(c) == usageLoop(c.Arguments, 1, <<>>)

----------------------------------------------------------------------------
(* The generators of the default sections                                  *)

argumentText(c) ==
    [i \in 1..Len(c.Arguments) |->
        indentString(argUsageText(c.Arguments[i]) \o <<NL>>
                       \o c.Arguments[i].Description,
                     <<" ", " ", " ", " ">>) \o <<NL>>]

RECURSIVE collectOptions_LastFirst(_)
collectOptions_LastFirst(cs) ==
    IF cs = <<>> THEN <<>> ELSE collectOptions_LastFirst(Tail(cs)) \o Head(cs).Options

\* optionText, lines 134-139: the options of every command, in order
RECURSIVE collectOptions(_)
collectOptions(cs) ==
    IF cs = <<>> THEN <<>> ELSE Head(cs).Options \o collectOptions(Tail(cs))

\* optionText, line 151: the guard of the read of opt.Names[j]
hasAlias(opt, jj) == Len(opt.Names) >= jj + 1

\* optionText, line 154: the option has a further alias after index j
hasFurther_Inclusive(opt, jj) == Len(opt.Names) >= jj + 1

hasFurther(opt, jj) == Len(opt.Names) > jj + 1

\* optionText, line 152: opt.Names[j] is out of range (Go indexes from 0)
outOfRange(opt, jj) == hasAlias(opt, jj) /\ (jj + 1) \notin DOMAIN opt.Names

\* optionText, lines 147-160: one pass of the inner loop over the options
passLines(opts, ls, jj) ==
    [i \in 1..Len(opts) |->
        (IF Len(ls) < i THEN <<>> ELSE ls[i])
        \o (IF hasAlias(opts[i], jj) /\ ~outOfRange(opts[i], jj)
            THEN Sprintf(optionFlag, <<opts[i].Names[jj + 1]>>) ELSE <<>>)
        \o (IF hasFurther(opts[i], jj) THEN <<",", " ">> ELSE <<>>)]

\* optionText, lines 145, 154-157: done after the pass
passDone(opts, jj) == \A i \in 1..Len(opts) : ~hasFurther(opts[i], jj)

passPanics(opts, jj) == \E i \in 1..Len(opts) : outOfRange(opts[i], jj)

\* optionText, lines 145-167: one turn of the outer loop, pass j
passStep(opts, ls, jj) ==
    [lines |-> IF passDone(opts, jj) THEN passLines(opts, ls, jj)
               ELSE align(passLines(opts, ls, jj)),
     j     |-> IF passDone(opts, jj) THEN jj ELSE jj + 1,
     done  |-> passDone(opts, jj)]

\* optionText, lines 144-168: the alias loop from pass j on
RECURSIVE nameLoop(_, _, _)
nameLoop(opts, ls, jj) ==
    LET r == passStep(opts, ls, jj)
    IN  IF r.done THEN r.lines ELSE nameLoop(opts, r.lines, r.j)

\* optionText, lines 170-174
addTypes(opts, ls) ==
    align([i \in 1..Len(opts) |->
              ls[i] \o <<" ">> \o Sprintf(optionType, <<opts[i].Type>>)])

\* optionText, lines 176-180
addDescriptions(opts, ls) ==
    [i \in 1..Len(opts) |->
        indentString(ls[i] \o <<NL>> \o opts[i].Description,
                     <<" ", " ", " ", " ">>) \o <<NL>>]

optionText(cs) ==
    LET opts == collectOptions(cs)
    IN  addDescriptions(opts, addTypes(opts, nameLoop(opts, <<>>, 0)))

\* the orders in which a range over the map may visit its keys
Orders(S) == {o \in [1..Cardinality(S) -> S] : \A k \in S : \E i \in DOMAIN o : o[i] = k}

\* subcommandText, with order the order the range over cmd.Subcommands takes
subcommandText(c, rootName, p, order) ==
    LET prefix0 == Sprintf(<<"%v", " ", "%v">>, <<rootName, Join(p, <<" ">>)>>)
        prefix == IF Len(p) > 0 THEN prefix0 \o <<" ">> ELSE prefix0
    IN  [i \in 1..Len(order) |->
            LET name == order[i]
                sub == c.Subcommands[name]
                usage == usageText(sub)
                l0 == Sprintf(<<"%v", "%v", " ", "%v">>, <<prefix, name, usage>>)
                l1 == l0 \o Sprintf(<<NL, "%v">>, <<sub.Description>>)
            IN  indentString(l1, <<" ", " ", " ", " ">>) \o <<NL>>]

----------------------------------------------------------------------------
(* The templates                                                           *)

HdrArguments   == <<"A", "R", "G", "U", "M", "E", "N", "T", "S", ":">>
HdrOptions     == <<"O", "P", "T", "I", "O", "N", "S", ":">>
HdrSubcommands == <<"S", "U", "B", "C", "O", "M", "M", "A", "N", "D", "S", ":">>
HdrDescription == <<"D", "E", "S", "C", "R", "I", "P", "T", "I", "O", "N", ":">>
HintHead == <<"U", "s", "e", " ", "'">>
HintTail == <<" ", "<", "s", "u", "b", "c", "m", "d", ">", " ", "-", "-", "h", "e", "l", "p", "'",
              " ", "f", "o", "r", " ", "m", "o", "r", "e", " ",
              "i", "n", "f", "o", "r", "m", "a", "t", "i", "o", "n", " ",
              "a", "b", "o", "u", "t", " ", "e", "a", "c", "h", " ",
              "c", "o", "m", "m", "a", "n", "d", ".">>

\* template "usage"
usageFormat(f) ==
    f.Path \o (IF f.ArgUsage # <<>> THEN <<" ">> \o f.ArgUsage ELSE <<>>)
           \o <<" ", "-", " ">> \o f.Tagline

\* one {{if}}...{{end}} block of longHelpFormat: header, body and what follows the body
section(hdr, f, body, extra) ==
    IF body # <<>>
    THEN hdr \o <<NL, NL>> \o f.Indent \o body \o <<NL, NL>> \o extra
    ELSE <<>>

hint(f) == f.Indent \o HintHead \o f.Path \o HintTail \o <<NL, NL>>

longHelpFormat_DescriptionFirst(f) ==
    <<NL>> \o f.Indent \o usageFormat(f) \o <<NL, NL>>
    \o section(HdrDescription, f, f.Description, <<>>)
    \o section(HdrArguments, f, f.Arguments, <<>>)
    \o section(HdrOptions, f, f.Options, <<>>)
    \o section(HdrSubcommands, f, f.Subcommands, hint(f))
    \o <<NL>>

\* template "longHelp"
longHelpFormat(f) ==
    <<NL>> \o f.Indent \o usageFormat(f) \o <<NL, NL>>
    \o section(HdrArguments, f, f.Arguments, <<>>)
    \o section(HdrOptions, f, f.Options, <<>>)
    \o section(HdrSubcommands, f, f.Subcommands, hint(f))
    \o section(HdrDescription, f, f.Description, <<>>)
    \o <<NL>>

----------------------------------------------------------------------------
(* LongHelp                                                                *)

nil == "nil"
NotFound == "NotFound"

\* root.Get(path): the command at path, NotFound when a segment is absent
RECURSIVE Get(_, _)
Get(c, p) ==
    IF p = <<>> THEN [cmd |-> c, err |-> nil]
    ELSE IF Head(p) \in DOMAIN c.Subcommands
         THEN Get(c.Subcommands[Head(p)], Tail(p))
         ELSE [cmd |-> nil, err |-> NotFound]

\* LongHelp, lines 101-110: which generators run
generatorsFor_AllOrNothing(c) ==
    IF Len(c.ArgumentHelp) = 0 /\ Len(c.OptionHelp) = 0 /\ Len(c.SubcommandHelp) = 0
    THEN {"argumentText", "optionText", "subcommandText"}
    ELSE {}

generatorsFor(c) ==
    (IF Len(c.ArgumentHelp) = 0 THEN {"argumentText"} ELSE {})
    \cup (IF Len(c.OptionHelp) = 0 THEN {"optionText"} ELSE {})
    \cup (IF Len(c.SubcommandHelp) = 0 THEN {"subcommandText"} ELSE {})

\* LongHelp, lines 85-115: the helpFields of command c
helpFieldsOf(rootName, c, p, order) ==
    LET pathStr == IF Len(p) > 0 THEN rootName \o <<" ">> \o Join(p, <<" ">>)
                   ELSE rootName
        gens == generatorsFor(c)
        arguments == IF "argumentText" \in gens
                     THEN Join(argumentText(c), <<NL>>) ELSE c.ArgumentHelp
        opts == IF "optionText" \in gens
                THEN Join(optionText(<<c>>), <<NL>>) ELSE c.OptionHelp
        subcommands == IF "subcommandText" \in gens
                       THEN Join(subcommandText(c, rootName, p, order), <<NL>>)
                       ELSE c.SubcommandHelp
    IN  [Indent      |-> indentStr,
         Path        |-> pathStr,
         ArgUsage    |-> usageText(c),
         Tagline     |-> c.Description,
         Arguments   |-> indentString(arguments, indentStr),
         Options     |-> indentString(opts, indentStr),
         Subcommands |-> indentString(subcommands, indentStr),
         Description |-> indentString(c.Help, indentStr)]

----------------------------------------------------------------------------
(* The inputs                                                              *)

Take(s, n) == SubSeq(s, 1, IF n < Len(s) THEN n ELSE Len(s))

Command(description, help, argumentHelp, optionHelp, subcommandHelp, arguments, opts, subcommands) ==
    [Description    |-> description,
     Help           |-> help,
     ArgumentHelp   |-> argumentHelp,
     OptionHelp     |-> optionHelp,
     SubcommandHelp |-> subcommandHelp,
     Arguments      |-> arguments,
     Options        |-> opts,
     Subcommands    |-> subcommands]

NoSubcommands == [n \in {} |-> nil]

\* the columns given to align
Columns == UNION {[1..k -> Strs({"a", " "}, MaxStr)] : k \in 0..MaxCol}

\* the arguments given to argUsageText and usageText
ArgPool ==
    {[Name |-> n, Required |-> r, Variadic |-> v, Description |-> <<"d">>] :
        n \in {<<"n">>, <<"f", "i", "l", "e">>}, r \in BOOLEAN, v \in BOOLEAN}

ArgLists == UNION {[1..k -> ArgPool] : k \in 0..MaxArgs}

\* the options given to optionText: the first names of two options
OptionFamilies ==
    {[Names |-> << <<"v">>, <<"v", "e", "r", "b", "o", "s", "e">>, <<"v", "v">> >>,
      Type |-> <<"b", "o", "o", "l">>, Description |-> <<"d">>],
     [Names |-> << <<"e", "n", "c">>, <<"e">>, <<"e", "n">> >>,
      Type |-> <<"i", "n", "t">>, Description |-> <<>>]}

OptionPool ==
    {[Names |-> Take(f.Names, k), Type |-> f.Type, Description |-> f.Description] :
        f \in OptionFamilies, k \in 1..MaxAliases}

OptionLists == UNION {[1..n -> OptionPool] : n \in 0..MaxOpts}

OnlyArguments(args) == Command(<<>>, <<>>, <<>>, <<>>, <<>>, args, <<>>, NoSubcommands)

OnlyOptions(opts) == Command(<<>>, <<>>, <<>>, <<>>, <<>>, <<>>, opts, NoSubcommands)

\* the command trees given to LongHelp
rootName == <<"i", "p", "f", "s">>

ArgList ==
    <<[Name |-> <<"f", "i", "l", "e">>, Required |-> TRUE, Variadic |-> TRUE,
       Description |-> <<"a", NL, "b">>],
      [Name |-> <<"n">>, Required |-> FALSE, Variadic |-> FALSE,
       Description |-> <<"c">>],
      [Name |-> <<"k">>, Required |-> TRUE, Variadic |-> FALSE,
       Description |-> <<>>]>>

OptList ==
    <<[Names |-> << <<"v">>, <<"v", "e", "r", "b", "o", "s", "e">> >>,
       Type |-> <<"b", "o", "o", "l">>, Description |-> <<"d">>],
      [Names |-> << <<"e", "n", "c">> >>,
       Type |-> <<"i", "n", "t">>, Description |-> <<"e", NL, "f">>],
      [Names |-> << <<"q">> >>,
       Type |-> <<"b", "o", "o", "l">>, Description |-> <<>>]>>

SubNames == << <<"a", "d", "d">>, <<"l", "s">>, <<"r", "m">> >>

Leaf == Command(<<"x">>, <<>>, <<>>, <<>>, <<>>, <<>>, <<>>, NoSubcommands)

SubCommand(name) ==
    IF name = SubNames[1]
    THEN Command(<<"s">>, <<"h">>, <<>>, <<>>, <<>>, Take(ArgList, 1), <<>>,
                 [n \in {<<"x">>} |-> Leaf])
    ELSE IF name = SubNames[2]
    THEN Command(<<"l">>, <<>>, <<>>, <<>>, <<>>, <<>>, Take(OptList, 1), NoSubcommands)
    ELSE Command(<<>>, <<>>, <<>>, <<>>, <<>>, Take(ArgList, 2), <<>>, NoSubcommands)

Override == <<"o", NL, "p">>

Roots ==
    {Command(<<"t">>, h, ah, oh, sh, Take(ArgList, na), Take(OptList, no),
             [n \in {SubNames[i] : i \in 1..ns} |-> SubCommand(n)]) :
        h \in {<<>>, <<"h", NL, "i">>},
        ah \in {<<>>, Override}, oh \in {<<>>, Override}, sh \in {<<>>, Override},
        na \in 0..MaxArgs, no \in 0..MaxOpts, ns \in 0..MaxSubs}

Paths ==
    {<<>>, <<SubNames[1]>>, <<SubNames[2]>>, << <<"z">> >>,
     <<SubNames[1], <<"z">> >>, <<SubNames[1], <<"x">> >>}

----------------------------------------------------------------------------
(* The states in which an operation is not under way                       *)

IdleAlign == colIn = <<>> /\ colOut = <<>>
IdleIndent == indLine = <<>> /\ indPrefix = <<>> /\ indOut = <<>>
IdleUsage == uArgs = <<>> /\ uIdx = 0 /\ uArgOut = <<>> /\ uOut = <<>>
IdleOption ==
    /\ cmd = <<>> /\ options = <<>> /\ lines = <<>>
    /\ j = 0 /\ passes = 0 /\ panicked = FALSE
IdleHelp ==
    /\ root = nil /\ path = nil /\ err = nil
    /\ out = <<>> /\ fields = nil /\ invoked = {}

----------------------------------------------------------------------------
(* align applied to a column                                               *)

InitAlign ==
    /\ pc = "align"
    /\ colIn \in Columns /\ colOut = <<>>
    /\ IdleIndent /\ IdleUsage /\ IdleOption /\ IdleHelp

Align ==
    /\ pc = "align"
    /\ colOut' = align(colIn)
    /\ pc' = "aligned"
    /\ UNCHANGED <<colIn, indentVars, usageVars, optionVars, helpVars>>

NextAlign == Align

SpecAlign == InitAlign /\ [][NextAlign]_vars

----------------------------------------------------------------------------
(* indentString applied to a text                                          *)

InitIndent ==
    /\ pc = "indent"
    /\ indLine \in Strs({"a", NL}, MaxText)
    /\ indPrefix \in Strs({" ", ">"}, MaxPrefix)
    /\ indOut = <<>>
    /\ IdleAlign /\ IdleUsage /\ IdleOption /\ IdleHelp

IndentString ==
    /\ pc = "indent"
    /\ indOut' = indentString(indLine, indPrefix)
    /\ pc' = "indented"
    /\ UNCHANGED <<indLine, indPrefix, alignVars, usageVars, optionVars, helpVars>>

NextIndent == IndentString

SpecIndent == InitIndent /\ [][NextIndent]_vars

----------------------------------------------------------------------------
(* argUsageText and usageText applied to the arguments of a command        *)

InitUsage ==
    /\ pc = "usage"
    /\ uArgs \in ArgLists
    /\ uIdx = 0 /\ uArgOut = <<>> /\ uOut = <<>>
    /\ IdleAlign /\ IdleIndent /\ IdleOption /\ IdleHelp

ArgUsageText(i) ==
    /\ pc \in {"usage", "usaged"}
    /\ uIdx' = i
    /\ uArgOut' = argUsageText(uArgs[i])
    /\ UNCHANGED <<pc, uArgs, uOut, alignVars, indentVars, optionVars, helpVars>>

UsageText ==
    /\ pc = "usage"
    /\ uOut' = usageText(OnlyArguments(uArgs))
    /\ pc' = "usaged"
    /\ UNCHANGED <<uArgs, uIdx, uArgOut, alignVars, indentVars, optionVars, helpVars>>

NextUsage ==
    \/ \E i \in 1..Len(uArgs) : ArgUsageText(i)
    \/ UsageText

SpecUsage == InitUsage /\ [][NextUsage]_vars

----------------------------------------------------------------------------
(* optionText, one step per part of its body                               *)

InitOption ==
    /\ pc = "collect"
    /\ \E all \in OptionLists : \E k \in 0..Len(all) :
          cmd = <<OnlyOptions(SubSeq(all, 1, k)),
                  OnlyOptions(SubSeq(all, k + 1, Len(all)))>>
    /\ options = <<>> /\ lines = <<>>
    /\ j = 0 /\ passes = 0 /\ panicked = FALSE
    /\ IdleAlign /\ IdleIndent /\ IdleUsage /\ IdleHelp

\* lines 134-143
Collect ==
    /\ pc = "collect"
    /\ options' = collectOptions(cmd)
    /\ lines' = <<>>
    /\ j' = 0
    /\ pc' = "pass"
    /\ UNCHANGED <<cmd, passes, panicked, alignVars, indentVars, usageVars, helpVars>>

\* lines 144-168, one turn
Pass ==
    /\ pc = "pass"
    /\ LET r == passStep(options, lines, j)
       IN  /\ lines' = r.lines
           /\ j' = r.j
           /\ pc' = IF r.done THEN "types" ELSE "pass"
    /\ passes' = passes + 1
    /\ panicked' = (panicked \/ passPanics(options, j))
    /\ UNCHANGED <<cmd, options, alignVars, indentVars, usageVars, helpVars>>

\* lines 170-174
AddTypes ==
    /\ pc = "types"
    /\ lines' = addTypes(options, lines)
    /\ pc' = "descriptions"
    /\ UNCHANGED <<cmd, options, j, passes, panicked,
                   alignVars, indentVars, usageVars, helpVars>>

\* lines 176-182
AddDescriptions ==
    /\ pc = "descriptions"
    /\ lines' = addDescriptions(options, lines)
    /\ pc' = "done"
    /\ UNCHANGED <<cmd, options, j, passes, panicked,
                   alignVars, indentVars, usageVars, helpVars>>

NextOption == Collect \/ Pass \/ AddTypes \/ AddDescriptions

SpecOption == InitOption /\ [][NextOption]_vars

\* optionText runs to its end: no step of it waits on anything
FairSpecOption == SpecOption /\ WF_vars(NextOption)

----------------------------------------------------------------------------
(* LongHelp called on a command tree                                       *)

Init ==
    /\ pc = "help"
    /\ root \in Roots
    /\ path = nil /\ err = nil /\ out = <<>> /\ fields = nil /\ invoked = {}
    /\ IdleAlign /\ IdleIndent /\ IdleUsage /\ IdleOption

LongHelp_WritesBeforeGet(p) ==
    /\ pc \in {"help", "helped"}
    /\ pc' = "helped"
    /\ path' = p
    /\ LET res == Get(root, p)
       IN  /\ err' = res.err
           /\ IF res.err # nil
              THEN /\ out' = <<NL>> \o indentStr
                   /\ fields' = nil
                   /\ invoked' = {}
              ELSE \E order \in Orders(DOMAIN res.cmd.Subcommands) :
                      /\ fields' = helpFieldsOf(rootName, res.cmd, p, order)
                      /\ invoked' = generatorsFor(res.cmd)
                      /\ out' = longHelpFormat(fields')
    /\ UNCHANGED <<root, alignVars, indentVars, usageVars, optionVars>>

LongHelp(p) ==
    /\ pc \in {"help", "helped"}
    /\ pc' = "helped"
    /\ path' = p
    /\ LET res == Get(root, p)
       IN  /\ err' = res.err
           /\ IF res.err # nil
              THEN /\ out' = <<>>
                   /\ fields' = nil
                   /\ invoked' = {}
              ELSE \E order \in Orders(DOMAIN res.cmd.Subcommands) :
                      /\ fields' = helpFieldsOf(rootName, res.cmd, p, order)
                      /\ invoked' = generatorsFor(res.cmd)
                      /\ out' = longHelpFormat(fields')
    /\ UNCHANGED <<root, alignVars, indentVars, usageVars, optionVars>>

Next == \E p \in Paths : LongHelp(p)

Spec == Init /\ [][Next]_vars

----------------------------------------------------------------------------
(* Operators the properties are stated with                                *)

\* s cut at every occurrence of the character sep
RECURSIVE Split(_, _)
Split(s, sep) ==
    IF \A i \in DOMAIN s : s[i] # sep THEN <<s>>
    ELSE LET k == CHOOSE i \in DOMAIN s : s[i] = sep /\ \A m \in 1..(i - 1) : s[m] # sep
         IN  <<SubSeq(s, 1, k - 1)>> \o Split(SubSeq(s, k + 1, Len(s)), sep)

\* the places at which the text w occurs in s
Occurrences(w, s) ==
    {i \in 1..(Len(s) - Len(w) + 1) : SubSeq(s, i, i + Len(w) - 1) = w}

\* the place of the first character c of s, 0 when there is none
FirstIndex(s, c) ==
    IF \E i \in DOMAIN s : s[i] = c
    THEN CHOOSE i \in DOMAIN s : s[i] = c /\ \A m \in 1..(i - 1) : s[m] # c
    ELSE 0

NotSpace(c) == c # " "

\* how an argument reads, written out case by case
Decorated(arg) ==
    CASE arg.Required /\ ~arg.Variadic  -> <<"<">> \o arg.Name \o <<">">>
      [] ~arg.Required /\ ~arg.Variadic -> <<"[", "<">> \o arg.Name \o <<">", "]">>
      [] arg.Required /\ arg.Variadic   -> <<"<">> \o arg.Name \o <<">", ".", ".", ".">>
      [] ~arg.Required /\ arg.Variadic  ->
            <<"[", "<">> \o arg.Name \o <<">", "]", ".", ".", ".">>

----------------------------------------------------------------------------
(* C7: align returns a column of the same length and order; an entry that  *)
(* was not empty is its old text followed by spaces only, as long as the   *)
(* longest entry given; an entry that was empty stays empty.               *)
C7_AlignPads ==
    pc = "aligned" =>
        /\ Len(colOut) = Len(colIn)
        /\ \A i \in 1..Len(colIn) :
              IF colIn[i] = <<>> THEN colOut[i] = <<>>
              ELSE /\ \A k \in 1..Len(colIn) : Len(colIn[k]) <= Len(colOut[i])
                   /\ \E k \in 1..Len(colIn) : Len(colIn[k]) = Len(colOut[i])
                   /\ SubSeq(colOut[i], 1, Len(colIn[i])) = colIn[i]
                   /\ \A k \in (Len(colIn[i]) + 1)..Len(colOut[i]) : colOut[i][k] = " "

\* a column with an empty entry, a padded entry and a longest entry was aligned
C7_Witness ==
    /\ pc = "aligned"
    /\ \E a, b, c \in 1..Len(colIn) :
          /\ colIn[a] = <<>>
          /\ colIn[b] # <<>> /\ Len(colOut[b]) > Len(colIn[b])
          /\ Len(colIn[c]) = MaxStr /\ colOut[c] = colIn[c]

(* C8: indentString keeps the number of lines, leaves the first line as it *)
(* is and puts the prefix before every later line.                         *)
C8_IndentLines ==
    pc = "indented" =>
        LET before == Split(indLine, NL)
            after  == Split(indOut, NL)
        IN  /\ Len(after) = Len(before)
            /\ after[1] = before[1]
            /\ \A i \in 2..Len(before) : after[i] = indPrefix \o before[i]

\* a text of three lines or more was indented by a prefix that is not empty
C8_Witness ==
    /\ pc = "indented"
    /\ Len(Split(indLine, NL)) >= 3
    /\ indPrefix # <<>>
    /\ indOut # indLine

(* C6: argUsageText gives <name>, [<name>], <name>... or [<name>]...;      *)
(* usageText is these in order with one space between, none before or      *)
(* after, and is empty for no arguments.                                   *)
C6_UsageText ==
    /\ uIdx # 0 => uArgOut = Decorated(uArgs[uIdx])
    /\ pc = "usaged" =>
          IF uArgs = <<>> THEN uOut = <<>>
          ELSE Split(uOut, " ") = [i \in 1..Len(uArgs) |-> Decorated(uArgs[i])]

\* an optional variadic argument was rendered, and the usage of two arguments
C6_Witness ==
    /\ pc = "usaged"
    /\ Len(uArgs) >= 2
    /\ uIdx # 0
    /\ uArgs[uIdx].Variadic /\ ~uArgs[uIdx].Required
    /\ \E i \in 1..Len(uArgs) : uArgs[i].Required /\ uArgs[i].Variadic

----------------------------------------------------------------------------
\* the options optionText was given, command after command
GivenOptions == cmd[1].Options \o cmd[2].Options

\* the part of an option's block before its type
NamePart(block) == SubSeq(block, 1, FirstIndex(block, "(") - 2)

(* C4: in the blocks optionText returns, the type starts at the same       *)
(* offset in the first line of every block.                                *)
C4_TypeColumnAligned ==
    pc = "done" =>
        \A a, b \in 1..Len(lines) : FirstIndex(lines[a], "(") = FirstIndex(lines[b], "(")

(* C9: optionText returns one block per option given, in the order given;  *)
(* the names of block i are the aliases of option i, each once, as -name,  *)
(* in order, with ", " between two of them and none after the last.        *)
C9_OneBlockPerOption ==
    pc = "done" =>
        /\ Len(lines) = Len(GivenOptions)
        /\ \A i \in 1..Len(lines) :
              LET names == GivenOptions[i].Names
                  part  == NamePart(lines[i])
              IN  /\ SelectSeq(part, NotSpace)
                       = Join([k \in 1..Len(names) |-> <<"-">> \o names[k]], <<",">>)
                  /\ \A k \in 1..Len(part) :
                        part[k] = "," => (k < Len(part) /\ part[k + 1] = " ")

\* both commands gave options, unlike ones, one with two names
C9_Witness ==
    /\ pc = "done"
    /\ cmd[1].Options # <<>> /\ cmd[2].Options # <<>>
    /\ cmd[1].Options[1] # cmd[2].Options[1]
    /\ \E i \in 1..Len(options) : Len(options[i].Names) >= 2

\* every line that is not empty has the same length
Aligned(ls) ==
    \A a, b \in 1..Len(ls) : (ls[a] # <<>> /\ ls[b] # <<>>) => Len(ls[a]) = Len(ls[b])

\* the largest number of names of an option, 0 when there is no option
LargestAliasCount ==
    CHOOSE n \in 0..(MaxAliases + 1) :
        /\ \A i \in 1..Len(options) : Len(options[i].Names) <= n
        /\ n = 0 \/ \E i \in 1..Len(options) : Len(options[i].Names) = n

C10_LoopInvariant ==
    /\ ~panicked
    /\ pc = "pass" => passes = j
    /\ (pc = "pass" /\ passes > 0) => Aligned(lines)
    /\ pc \in {"types", "descriptions", "done"} =>
          /\ passes = (IF LargestAliasCount = 0 THEN 1 ELSE LargestAliasCount)
          /\ j = passes - 1

(* C10: the alias loop of optionText ends; it makes as many passes as the  *)
(* largest number of names of an option, one when there is none; a pass    *)
(* after the first starts on aligned lines; Names is never read past its   *)
(* end.                                                                    *)
C10_LoopTerminates ==
    /\ []C10_LoopInvariant
    /\ (pc = "pass") ~> (pc = "types")

\* the loop ended after two passes over two options, one of them with one name
C10_Witness ==
    /\ pc = "types"
    /\ passes >= 2
    /\ Len(options) >= 2
    /\ \E i \in 1..Len(options) : Len(options[i].Names) = 1

----------------------------------------------------------------------------
\* the command the last call of LongHelp resolved
Resolved == Get(root, path).cmd

Rendered == pc = "helped" /\ err = nil

(* C1: LongHelp with a path that does not resolve returns the error of Get *)
(* and writes nothing.                                                     *)
C1_NoOutputOnError ==
    (pc = "helped" /\ Get(root, path).err # nil) =>
        /\ err = Get(root, path).err
        /\ out = <<>>

\* a path failed at its second segment
C1_Witness ==
    /\ pc = "helped"
    /\ err = NotFound
    /\ Len(path) = 2
    /\ DOMAIN root.Subcommands # {}

\* the generated text of a section, before LongHelp indents it
Generated(field) ==
    CASE field = "Arguments" -> {Join(argumentText(Resolved), <<NL>>)}
      [] field = "Options" -> {Join(optionText(<<Resolved>>), <<NL>>)}
      [] field = "Subcommands" ->
            {Join(subcommandText(Resolved, rootName, path, o), <<NL>>) :
                o \in Orders(DOMAIN Resolved.Subcommands)}

OverrideOf(field) ==
    CASE field = "Arguments" -> Resolved.ArgumentHelp
      [] field = "Options" -> Resolved.OptionHelp
      [] field = "Subcommands" -> Resolved.SubcommandHelp

GeneratorOf(field) ==
    CASE field = "Arguments" -> "argumentText"
      [] field = "Options" -> "optionText"
      [] field = "Subcommands" -> "subcommandText"

Sections == {"Arguments", "Options", "Subcommands"}

(* C2 as stated: per field, a non-empty override is indented once and its  *)
(* generator is not invoked; with an empty override the content is the     *)
(* generator's blocks joined by newline.                                   *)
C2_AsStated ==
    Rendered =>
        \A f \in Sections :
            IF OverrideOf(f) # <<>>
            THEN /\ GeneratorOf(f) \notin invoked
                 /\ fields[f] = indentString(OverrideOf(f), indentStr)
            ELSE /\ GeneratorOf(f) \in invoked
                 /\ fields[f] \in Generated(f)

(* C2 as amended: per field, a non-empty override is indented once and its *)
(* generator is not invoked; with an empty override the content is the     *)
(* generator's blocks joined by newline and then indented once as well.    *)
C2_OverridePerField ==
    Rendered =>
        \A f \in Sections :
            IF OverrideOf(f) # <<>>
            THEN /\ GeneratorOf(f) \notin invoked
                 /\ fields[f] = indentString(OverrideOf(f), indentStr)
            ELSE /\ GeneratorOf(f) \in invoked
                 /\ \E g \in Generated(f) : fields[f] = indentString(g, indentStr)

\* options generated between an overridden ARGUMENTS and an overridden SUBCOMMANDS
C2_Witness ==
    /\ Rendered
    /\ Resolved.ArgumentHelp # <<>>
    /\ Resolved.OptionHelp = <<>>
    /\ Resolved.SubcommandHelp # <<>>
    /\ Resolved.Options # <<>>
    /\ invoked = {"optionText"}

\* the headers of the sections, in the order of the template
Headers == <<HdrArguments, HdrOptions, HdrSubcommands, HdrDescription>>

\* whether the command gives each section a content
HasContent ==
    <<Resolved.ArgumentHelp # <<>> \/ Resolved.Arguments # <<>>,
      Resolved.OptionHelp # <<>> \/ Resolved.Options # <<>>,
      Resolved.SubcommandHelp # <<>> \/ DOMAIN Resolved.Subcommands # {},
      Resolved.Help # <<>> >>

Bodies == <<fields.Arguments, fields.Options, fields.Subcommands, fields.Description>>

(* C3: a section is in the text LongHelp writes, header and body, exactly  *)
(* when its content is not empty; the hint line goes with SUBCOMMANDS; the *)
(* sections written come in the order ARGUMENTS, OPTIONS, SUBCOMMANDS,     *)
(* DESCRIPTION.                                                            *)
C3_SectionsIffContent ==
    Rendered =>
        /\ \A k \in 1..4 :
              /\ (Bodies[k] # <<>>) <=> HasContent[k]
              /\ IF HasContent[k]
                 THEN /\ Cardinality(Occurrences(Headers[k], out)) = 1
                      /\ Occurrences(Headers[k] \o <<NL, NL>> \o indentStr
                                       \o Bodies[k] \o <<NL, NL>>, out) # {}
                 ELSE Occurrences(Headers[k], out) = {}
        /\ (Occurrences(HintTail, out) # {}) <=> HasContent[3]
        /\ \A a, b \in 1..4 :
              (a < b /\ HasContent[a] /\ HasContent[b]) =>
                  \A x \in Occurrences(Headers[a], out) :
                      \A y \in Occurrences(Headers[b], out) : x < y

\* all four sections were written, the first three generated
C3_Witness ==
    /\ Rendered
    /\ path = <<>>
    /\ invoked = {"argumentText", "optionText", "subcommandText"}
    /\ \A k \in 1..4 : Occurrences(Headers[k], out) # {}

(* C5: two renders of the same tree with the same path write the same      *)
(* text.                                                                   *)
C5_Deterministic ==
    [][(Rendered /\ path' = path /\ err' = nil) => out' = out]_vars

====
